---- MODULE Spec2Model ----
(***************************************************************************)
(* Model of src/src/MCAL.c, the microcontroller abstraction layer for the  *)
(* STM32F1xx: GPIO pass-throughs, the I2C memory transfers with the        *)
(* readiness protocol of I2C_WaitUntilReady, and the busy-wait MCAL_Sleep. *)
(*                                                                         *)
(* The application is one execution context (pc).  The peripheral driver   *)
(* is the environment: the state of the I2C handle hi2c2, the counter of   *)
(* the timer htim1 and the output levels of the GPIO ports.  Every call    *)
(* the layer makes to the driver is appended to log, the record a          *)
(* simulated driver would keep of the current API call.                    *)
(***************************************************************************)
EXTENDS Integers, Sequences, FiniteSets

VARIABLES
    pc,          \* position of the application: "idle" between API calls
    op,          \* API function being executed, or the last one completed
    args,        \* its arguments
    ret,         \* return value of the last completed call
    log,         \* driver calls issued by the current API call, in order
    busState,    \* hi2c2.State as HAL_I2C_GetState reports it
    counter,     \* htim1 counter register
    sleepDelay,  \* u16DelayInUs of the active MCAL_Sleep
    sleepFrom,   \* who called the active MCAL_Sleep: "app" or "wait"
    reads,       \* counter reads of the active MCAL_Sleep that were too small
    ticks,       \* timer ticks since the active MCAL_Sleep reset the counter
    afterWait,   \* the call before the current one was I2C_WaitUntilReady
    odr          \* output level of every GPIO port handle: the set of high pins

vars == <<pc, op, args, ret, log, busState, counter, sleepDelay, sleepFrom,
          reads, ticks, afterWait, odr>>

---------------------------------------------------------------------------
(* Bounds of the model *)

\* Busy observations recorded per bus wait loop.
MaxPolls == 2
\* Probe timeouts recorded per I2C_WaitUntilReady.
MaxTimeouts == 2
\* Too-small counter reads recorded per MCAL_Sleep.
MaxReads == 1
\* Range of the counter and of the uint16_t delay, scaled down from 2^16.
CounterRange == 3
\* Pins per GPIO port, scaled down from 16.
NumPins == 2

---------------------------------------------------------------------------
(* Values of the driver's types *)

HAL_OK      == "HAL_OK"
HAL_ERROR   == "HAL_ERROR"
HAL_BUSY    == "HAL_BUSY"
HAL_TIMEOUT == "HAL_TIMEOUT"
HAL_Status  == {HAL_OK, HAL_ERROR, HAL_BUSY, HAL_TIMEOUT}

HAL_I2C_STATE_READY   == "HAL_I2C_STATE_READY"
HAL_I2C_STATE_BUSY    == "HAL_I2C_STATE_BUSY"
HAL_I2C_STATE_BUSY_TX == "HAL_I2C_STATE_BUSY_TX"
HAL_I2C_STATE_BUSY_RX == "HAL_I2C_STATE_BUSY_RX"
HAL_I2C_States == {HAL_I2C_STATE_READY, HAL_I2C_STATE_BUSY,
                   HAL_I2C_STATE_BUSY_TX, HAL_I2C_STATE_BUSY_RX}

\* The driver's width codes, named by the switch of I2C_Receive and of
\* I2C_Transmit; their values are those of the driver's header.
I2C_MEMADD_SIZE_8BIT  == 1
I2C_MEMADD_SIZE_16BIT == 16

I2C_MEMSIZE_8BIT  == "I2C_MEMSIZE_8BIT"
I2C_MEMSIZE_16BIT == "I2C_MEMSIZE_16BIT"
\* An I2CMemAddSize holding neither enumerator (C lets an enum hold one).
I2C_MEMSIZE_OTHER == "I2C_MEMSIZE_OTHER"
I2CMemAddSize == {I2C_MEMSIZE_8BIT, I2C_MEMSIZE_16BIT, I2C_MEMSIZE_OTHER}

GPIO_PORT_A == "GPIO_PORT_A"
GPIO_PORT_B == "GPIO_PORT_B"
GPIO_PORT_C == "GPIO_PORT_C"
GPIO_PORT_D == "GPIO_PORT_D"
\* A GPIOPort holding none of the enumerators.
GPIO_PORT_OTHER == "GPIO_PORT_OTHER"
GPIOPorts == {GPIO_PORT_A, GPIO_PORT_B, GPIO_PORT_C, GPIO_PORT_D}
GPIOPort  == GPIOPorts \cup {GPIO_PORT_OTHER}

GPIOA == "GPIOA"
GPIOB == "GPIOB"
GPIOC == "GPIOC"
GPIOD == "GPIOD"
GPIO_TypeDef == {GPIOA, GPIOB, GPIOC, GPIOD}

GPIO_PIN_RESET == "GPIO_PIN_RESET"
GPIO_PIN_SET   == "GPIO_PIN_SET"

\* Probe parameters of I2C_WaitUntilReady: Trials and Timeout.
ProbeTrials  == 100
ProbeTimeout == 100

---------------------------------------------------------------------------
(* Inputs the application draws its arguments from *)

DevAddresses == {80, 104}
MemAddresses == {16, 4096}
Buffers      == {"bufA", "bufB"}
Sizes        == {1, 4}
Delays       == 0 .. (CounterRange - 1)
Pins         == 0 .. (NumPins - 1)
PinMasks     == SUBSET Pins

NoArgs == [dev |-> 0, mem |-> 0, width |-> "-", buf |-> "-", size |-> 0,
           delay |-> 0, port |-> "-", mask |-> {}]

Event(ev, a, res, bus) == [ev |-> ev, args |-> a, res |-> res, bus |-> bus]

---------------------------------------------------------------------------
Init ==
    /\ pc = "idle"
    /\ op = "none"
    /\ args = NoArgs
    /\ ret = "void"
    /\ log = <<>>
    /\ busState = HAL_I2C_STATE_READY
    /\ counter = 0
    /\ sleepDelay = 0
    /\ sleepFrom = "app"
    /\ reads = 0
    /\ ticks = 0
    /\ afterWait = FALSE
    /\ odr = [h \in GPIO_TypeDef |-> {}]

---------------------------------------------------------------------------
(* The peripheral driver, as this layer sees it *)

\* Status of a call that needs the bus: HAL_BUSY unless the handle is Ready.
DriverResults(st) ==
    IF st = HAL_I2C_STATE_READY THEN HAL_Status ELSE {HAL_BUSY}

\* State of the handle after a transfer request: an accepted one occupies it.
StateAfterRequest(st, res, busy) == IF res = HAL_OK THEN busy ELSE st

\* State of the handle after a presence probe: the probe took bus time, and
\* the handle may still be settling when the call returns.
StatesAfterProbe(st) ==
    IF st = HAL_I2C_STATE_READY
    THEN {HAL_I2C_STATE_READY, HAL_I2C_STATE_BUSY}
    ELSE {st}

\* The interrupt that completes the transfer in flight.
I2C_TransferComplete ==
    /\ busState # HAL_I2C_STATE_READY
    /\ busState' = HAL_I2C_STATE_READY
    /\ UNCHANGED <<pc, op, args, ret, log, counter, sleepDelay, sleepFrom,
                   reads, ticks, afterWait, odr>>

\* One tick of the free-running counter of htim1.
TIM_Tick ==
    /\ counter' = (counter + 1) % CounterRange
    /\ ticks' = IF pc = "sleep_poll" /\ ticks < CounterRange
                THEN ticks + 1 ELSE ticks
    /\ UNCHANGED <<pc, op, args, ret, log, busState, sleepDelay, sleepFrom,
                   reads, afterWait, odr>>

---------------------------------------------------------------------------
(* I2C_Receive and I2C_Transmit *)

ReceiveMemAddSize_Confused(eMemAddSize) ==
    CASE eMemAddSize = I2C_MEMSIZE_8BIT  -> I2C_MEMADD_SIZE_8BIT
      [] eMemAddSize = I2C_MEMSIZE_16BIT -> I2C_MEMADD_SIZE_8BIT
      [] OTHER -> 0

\* The switch of I2C_Receive; u16MemAddSize stays 0 when no case matches.
ReceiveMemAddSize(eMemAddSize) ==
    CASE eMemAddSize = I2C_MEMSIZE_8BIT  -> I2C_MEMADD_SIZE_8BIT
      [] eMemAddSize = I2C_MEMSIZE_16BIT -> I2C_MEMADD_SIZE_16BIT
      [] OTHER -> 0

\* The switch of I2C_Transmit.
TransmitMemAddSize(eMemAddSize) ==
    CASE eMemAddSize = I2C_MEMSIZE_8BIT  -> I2C_MEMADD_SIZE_8BIT
      [] eMemAddSize = I2C_MEMSIZE_16BIT -> I2C_MEMADD_SIZE_16BIT
      [] OTHER -> 0

ReceiveReturn(status) == IF HAL_OK # status THEN -1 ELSE 0

TransmitReturn_BusyIsOk(status) ==
    IF status \in {HAL_ERROR, HAL_TIMEOUT} THEN -1 ELSE 0

TransmitReturn(status) == IF HAL_OK # status THEN -1 ELSE 0

I2C_Receive(u16DevAddress, u16MemAddress, eMemAddSize, pu8RxBuffer, u16Size) ==
    /\ pc = "idle"
    /\ \E res \in DriverResults(busState) :
          /\ log' = <<Event("HAL_I2C_Mem_Read_IT",
                            <<u16DevAddress, u16MemAddress,
                              ReceiveMemAddSize(eMemAddSize),
                              pu8RxBuffer, u16Size>>,
                            res, busState)>>
          /\ busState' = StateAfterRequest(busState, res, HAL_I2C_STATE_BUSY_RX)
          /\ ret' = ReceiveReturn(res)
    /\ op' = "I2C_Receive"
    /\ args' = [NoArgs EXCEPT !.dev = u16DevAddress, !.mem = u16MemAddress,
                              !.width = eMemAddSize, !.buf = pu8RxBuffer,
                              !.size = u16Size]
    /\ sleepDelay' = 0 /\ sleepFrom' = "app" /\ reads' = 0 /\ ticks' = 0
    /\ afterWait' = (op = "I2C_WaitUntilReady")
    /\ UNCHANGED <<pc, counter, odr>>

I2C_Transmit(u16DevAddress, u16MemAddress, eMemAddSize, pu8TxBuffer, u16Size) ==
    /\ pc = "idle"
    /\ \E res \in DriverResults(busState) :
          /\ log' = <<Event("HAL_I2C_Mem_Write_IT",
                            <<u16DevAddress, u16MemAddress,
                              TransmitMemAddSize(eMemAddSize),
                              pu8TxBuffer, u16Size>>,
                            res, busState)>>
          /\ busState' = StateAfterRequest(busState, res, HAL_I2C_STATE_BUSY_TX)
          /\ ret' = TransmitReturn(res)
    /\ op' = "I2C_Transmit"
    /\ args' = [NoArgs EXCEPT !.dev = u16DevAddress, !.mem = u16MemAddress,
                              !.width = eMemAddSize, !.buf = pu8TxBuffer,
                              !.size = u16Size]
    /\ sleepDelay' = 0 /\ sleepFrom' = "app" /\ reads' = 0 /\ ticks' = 0
    /\ afterWait' = (op = "I2C_WaitUntilReady")
    /\ UNCHANGED <<pc, counter, odr>>

---------------------------------------------------------------------------
(* I2C_WaitUntilReady *)

IsGetState(e) == e.ev = "HAL_I2C_GetState"
IsProbe(e)    == e.ev = "HAL_I2C_IsDeviceReady"
IsSleep(e)    == e.ev = "MCAL_Sleep"

Probes(s)    == {i \in DOMAIN s : IsProbe(s[i])}
Timeouts(s)  == {i \in Probes(s) : s[i].res = HAL_TIMEOUT}
\* Index of the last probe of s, 0 when there is none.
LastProbe(s) == IF Probes(s) = {} THEN 0
                ELSE CHOOSE i \in Probes(s) : \A j \in Probes(s) : j <= i
\* Bus observations other than Ready made after index k.
NotReadyAfter(s, k) ==
    {i \in DOMAIN s : i > k /\ IsGetState(s[i]) /\ s[i].res # HAL_I2C_STATE_READY}
SleepsAfter(s, k) == {i \in DOMAIN s : i > k /\ IsSleep(s[i])}

I2C_WaitUntilReady_Call(u16DevAddress) ==
    /\ pc = "idle"
    /\ pc' = "wait_first"
    /\ op' = "I2C_WaitUntilReady"
    /\ args' = [NoArgs EXCEPT !.dev = u16DevAddress]
    /\ log' = <<>>
    /\ sleepDelay' = 0 /\ sleepFrom' = "app" /\ reads' = 0 /\ ticks' = 0
    /\ afterWait' = FALSE
    /\ UNCHANGED <<ret, busState, counter, odr>>

FirstWaitSpins_Never(state) == FALSE

\* Condition of the first loop: while (HAL_I2C_STATE_READY != GetState).
FirstWaitSpins(state) == HAL_I2C_STATE_READY # state

I2C_WaitUntilReady_FirstWait ==
    /\ pc = "wait_first"
    /\ FirstWaitSpins(busState) =>
          Cardinality(NotReadyAfter(log, 0)) < MaxPolls
    /\ log' = Append(log, Event("HAL_I2C_GetState", <<>>, busState, busState))
    /\ pc' = IF FirstWaitSpins(busState) THEN "wait_first" ELSE "wait_probe"
    /\ UNCHANGED <<op, args, ret, busState, counter, sleepDelay, sleepFrom,
                   reads, ticks, afterWait, odr>>

ProbeRetries_UntilOk(status) == HAL_OK # status

ProbeRetries_Never(status) == FALSE

\* Condition of the second loop: while (HAL_TIMEOUT == IsDeviceReady(...)).
ProbeRetries(status) == HAL_TIMEOUT = status

I2C_WaitUntilReady_ProbeResult(res) ==
    /\ pc = "wait_probe"
    /\ ProbeRetries(res) => Cardinality(Timeouts(log)) < MaxTimeouts
    /\ log' = Append(log, Event("HAL_I2C_IsDeviceReady",
                                <<args.dev, ProbeTrials, ProbeTimeout>>,
                                res, busState))
    /\ busState' \in StatesAfterProbe(busState)
    /\ pc' = IF ProbeRetries(res) THEN "wait_probe" ELSE "wait_final"
    /\ UNCHANGED <<op, args, ret, counter, sleepDelay, sleepFrom, reads,
                   ticks, afterWait, odr>>

I2C_WaitUntilReady_Probe ==
    \E res \in DriverResults(busState) : I2C_WaitUntilReady_ProbeResult(res)

FinalWaitSpins_Never(state) == FALSE

\* Condition of the third loop: while (HAL_I2C_STATE_READY != GetState).
FinalWaitSpins(state) == HAL_I2C_STATE_READY # state

\* Whether the body of the third loop calls MCAL_Sleep(1).
FinalWaitSleeps_Not == FALSE

FinalWaitSleeps == TRUE

I2C_WaitUntilReady_FinalWait ==
    /\ pc = "wait_final"
    /\ FinalWaitSpins(busState) =>
          Cardinality(NotReadyAfter(log, LastProbe(log))) < MaxPolls
    /\ log' = Append(log, Event("HAL_I2C_GetState", <<>>, busState, busState))
    /\ IF FinalWaitSpins(busState)
       THEN IF FinalWaitSleeps
            THEN /\ pc' = "sleep_set"
                 /\ sleepDelay' = 1
                 /\ sleepFrom' = "wait"
                 /\ ret' = ret
            ELSE UNCHANGED <<pc, sleepDelay, sleepFrom, ret>>
       ELSE /\ pc' = "idle"
            /\ ret' = "void"
            /\ UNCHANGED <<sleepDelay, sleepFrom>>
    /\ UNCHANGED <<op, args, busState, counter, reads, ticks, afterWait, odr>>

---------------------------------------------------------------------------
(* MCAL_Sleep *)

MCAL_Sleep_Call(u16DelayInUs) ==
    /\ pc = "idle"
    /\ pc' = "sleep_set"
    /\ op' = "MCAL_Sleep"
    /\ args' = [NoArgs EXCEPT !.delay = u16DelayInUs]
    /\ log' = <<>>
    /\ sleepDelay' = u16DelayInUs
    /\ sleepFrom' = "app"
    /\ reads' = 0 /\ ticks' = 0
    /\ afterWait' = FALSE
    /\ UNCHANGED <<ret, busState, counter, odr>>

SetCounterValue_Keep(cnt) == cnt

\* __HAL_TIM_SET_COUNTER(&htim1, 0)
SetCounterValue(cnt) == 0

MCAL_Sleep_SetCounter ==
    /\ pc = "sleep_set"
    /\ counter' = SetCounterValue(counter)
    /\ ticks' = 0
    /\ reads' = 0
    /\ log' = Append(log, Event("MCAL_Sleep", <<sleepDelay>>, "void", busState))
    /\ pc' = "sleep_poll"
    /\ UNCHANGED <<op, args, ret, busState, sleepDelay, sleepFrom, afterWait, odr>>

\* Condition of the loop: while (u16DelayInUs > __HAL_TIM_GET_COUNTER(&htim1)).
SleepSpins(u16DelayInUs, cnt) == u16DelayInUs > cnt

MCAL_Sleep_Poll ==
    /\ pc = "sleep_poll"
    /\ IF SleepSpins(sleepDelay, counter)
       THEN /\ reads < MaxReads
            /\ reads' = reads + 1
            /\ UNCHANGED <<pc, ret, sleepDelay, sleepFrom, ticks>>
       ELSE IF sleepFrom = "wait"
            THEN \* back in the third loop of I2C_WaitUntilReady; the frame
                 \* of MCAL_Sleep is gone
                 /\ pc' = "wait_final"
                 /\ sleepDelay' = 0 /\ sleepFrom' = "app"
                 /\ reads' = 0 /\ ticks' = 0
                 /\ ret' = ret
            ELSE /\ pc' = "idle"
                 /\ ret' = "void"
                 /\ UNCHANGED <<sleepDelay, sleepFrom, reads, ticks>>
    /\ UNCHANGED <<op, args, log, busState, counter, afterWait, odr>>

---------------------------------------------------------------------------
(* The I2C guard, the delay and their environment *)

Next ==
    \/ \E d \in DevAddresses, m \in MemAddresses, w \in I2CMemAddSize,
          b \in Buffers, n \in Sizes : I2C_Receive(d, m, w, b, n)
    \/ \E d \in DevAddresses, m \in MemAddresses, w \in I2CMemAddSize,
          b \in Buffers, n \in Sizes : I2C_Transmit(d, m, w, b, n)
    \/ \E d \in DevAddresses : I2C_WaitUntilReady_Call(d)
    \/ I2C_WaitUntilReady_FirstWait
    \/ I2C_WaitUntilReady_Probe
    \/ I2C_WaitUntilReady_FinalWait
    \/ \E n \in Delays : MCAL_Sleep_Call(n)
    \/ MCAL_Sleep_SetCounter
    \/ MCAL_Sleep_Poll
    \/ I2C_TransferComplete
    \/ TIM_Tick

Spec == Init /\ [][Next]_vars

---------------------------------------------------------------------------
(* GPIO control *)

MCAL_ConvertGPIOPort_CopyPaste(ePort) ==
    CASE ePort = GPIO_PORT_A -> GPIOA
      [] ePort = GPIO_PORT_B -> GPIOB
      [] ePort = GPIO_PORT_C -> GPIOC
      [] ePort = GPIO_PORT_D -> GPIOC
      [] OTHER -> GPIOA

\* _MCAL_ConvertGPIOPort: phPort starts as GPIOA and the switch overrides it.
MCAL_ConvertGPIOPort(ePort) ==
    CASE ePort = GPIO_PORT_A -> GPIOA
      [] ePort = GPIO_PORT_B -> GPIOB
      [] ePort = GPIO_PORT_C -> GPIOC
      [] ePort = GPIO_PORT_D -> GPIOD
      [] OTHER -> GPIOA

\* The driver's pin read: set when any selected pin is high.
HAL_GPIO_ReadPin(phPort, u16PinMask) ==
    IF odr[phPort] \cap u16PinMask # {} THEN GPIO_PIN_SET ELSE GPIO_PIN_RESET

\* The driver's pin write: the selected pins take the level, the rest keep theirs.
HAL_GPIO_WritePin(phPort, u16PinMask, level) ==
    [odr EXCEPT ![phPort] = IF level = GPIO_PIN_SET
                            THEN @ \cup u16PinMask
                            ELSE @ \ u16PinMask]

\* The driver's pin toggle: the selected pins are inverted.
HAL_GPIO_TogglePin(phPort, u16PinMask) ==
    [odr EXCEPT ![phPort] = (@ \ u16PinMask) \cup (u16PinMask \ @)]

GPIO_Enter(name, ePort, u16PinMask) ==
    /\ pc = "idle"
    /\ op' = name
    /\ args' = [NoArgs EXCEPT !.port = ePort, !.mask = u16PinMask]
    /\ afterWait' = FALSE
    /\ UNCHANGED <<pc, busState, counter, sleepDelay, sleepFrom, reads, ticks>>

\* if (HAL_GPIO_ReadPin(...)) return true; else return false;
IsSetResult(pinState) == pinState # GPIO_PIN_RESET

GPIO_IsSet(ePort, u16PinMask) ==
    LET phPort == MCAL_ConvertGPIOPort(ePort)
        level  == HAL_GPIO_ReadPin(phPort, u16PinMask)
    IN  /\ GPIO_Enter("GPIO_IsSet", ePort, u16PinMask)
        /\ log' = <<Event("HAL_GPIO_ReadPin", <<phPort, u16PinMask>>,
                          level, busState)>>
        /\ ret' = IsSetResult(level)
        /\ odr' = odr

GPIO_PullDown(ePort, u16PinMask) ==
    LET phPort == MCAL_ConvertGPIOPort(ePort)
    IN  /\ GPIO_Enter("GPIO_PullDown", ePort, u16PinMask)
        /\ log' = <<Event("HAL_GPIO_WritePin",
                          <<phPort, u16PinMask, GPIO_PIN_RESET>>,
                          "void", busState)>>
        /\ ret' = "void"
        /\ odr' = HAL_GPIO_WritePin(phPort, u16PinMask, GPIO_PIN_RESET)

GPIO_RaiseHigh(ePort, u16PinMask) ==
    LET phPort == MCAL_ConvertGPIOPort(ePort)
    IN  /\ GPIO_Enter("GPIO_RaiseHigh", ePort, u16PinMask)
        /\ log' = <<Event("HAL_GPIO_WritePin",
                          <<phPort, u16PinMask, GPIO_PIN_SET>>,
                          "void", busState)>>
        /\ ret' = "void"
        /\ odr' = HAL_GPIO_WritePin(phPort, u16PinMask, GPIO_PIN_SET)

GPIO_Toggle(ePort, u16PinMask) ==
    LET phPort == MCAL_ConvertGPIOPort(ePort)
    IN  /\ GPIO_Enter("GPIO_Toggle", ePort, u16PinMask)
        /\ log' = <<Event("HAL_GPIO_TogglePin", <<phPort, u16PinMask>>,
                          "void", busState)>>
        /\ ret' = "void"
        /\ odr' = HAL_GPIO_TogglePin(phPort, u16PinMask)

GpioNext ==
    \/ \E p \in GPIOPort, m \in PinMasks : GPIO_IsSet(p, m)
    \/ \E p \in GPIOPort, m \in PinMasks : GPIO_PullDown(p, m)
    \/ \E p \in GPIOPort, m \in PinMasks : GPIO_RaiseHigh(p, m)
    \/ \E p \in GPIOPort, m \in PinMasks : GPIO_Toggle(p, m)

GpioSpec == Init /\ [][GpioNext]_vars

---------------------------------------------------------------------------
(* The readiness protocol alone, with the fairness its liveness rests on *)

\* A call of I2C_WaitUntilReady may find the handle occupied by a transfer.
WaitInit ==
    /\ pc = "idle"
    /\ op = "none"
    /\ args = NoArgs
    /\ ret = "void"
    /\ log = <<>>
    /\ busState \in {HAL_I2C_STATE_READY, HAL_I2C_STATE_BUSY_TX,
                     HAL_I2C_STATE_BUSY_RX}
    /\ counter \in 0 .. (CounterRange - 1)
    /\ sleepDelay = 0
    /\ sleepFrom = "app"
    /\ reads = 0
    /\ ticks = 0
    /\ afterWait = FALSE
    /\ odr = [h \in GPIO_TypeDef |-> {}]

WaitNext ==
    \/ \E d \in DevAddresses : I2C_WaitUntilReady_Call(d)
    \/ I2C_WaitUntilReady_FirstWait
    \/ I2C_WaitUntilReady_Probe
    \/ I2C_WaitUntilReady_FinalWait
    \/ MCAL_Sleep_SetCounter
    \/ MCAL_Sleep_Poll
    \/ I2C_TransferComplete
    \/ TIM_Tick

\* The probe reports something other than a timeout.
ProbeAnswers ==
    \E res \in DriverResults(busState) \ {HAL_TIMEOUT} :
        I2C_WaitUntilReady_ProbeResult(res)

\* The processor keeps executing the loops; the interrupt of the transfer in
\* flight arrives; the timer runs; the probe does not time out forever.  The
\* poll of MCAL_Sleep(1) is strongly fair: the processor reads the counter
\* again and again, and the counter is at least 1 in all but one of its
\* values, so a read that ends the loop is not missed forever.
WaitFairness ==
    /\ WF_vars(I2C_WaitUntilReady_FirstWait)
    /\ WF_vars(I2C_WaitUntilReady_FinalWait)
    /\ WF_vars(MCAL_Sleep_SetCounter)
    /\ SF_vars(MCAL_Sleep_Poll)
    /\ WF_vars(I2C_TransferComplete)
    /\ WF_vars(TIM_Tick)
    /\ WF_vars(ProbeAnswers)

FairSpec == WaitInit /\ [][WaitNext]_vars /\ WaitFairness

---------------------------------------------------------------------------
(* Properties *)

IsRequest(e) == e.ev \in {"HAL_I2C_Mem_Write_IT", "HAL_I2C_Mem_Read_IT"}
IsReadyObs(e) == IsGetState(e) /\ e.res = HAL_I2C_STATE_READY
InWait == op = "I2C_WaitUntilReady"
Returned(name) == pc = "idle" /\ op = name
Transferred == Returned("I2C_Transmit") \/ Returned("I2C_Receive")

\* C1, as claimed: no transfer request is ever issued while the bus is not
\* Ready, whatever sequence of calls the application makes.
C1_NeverIssuedWhileBusy ==
    \A i \in DOMAIN log :
        IsRequest(log[i]) => log[i].bus = HAL_I2C_STATE_READY

\* C1, amended: a transfer request issued by the call that directly follows
\* a completed I2C_WaitUntilReady finds the bus Ready.
C1_ReadyAfterWait ==
    (Transferred /\ afterWait) =>
        /\ Len(log) = 1
        /\ IsRequest(log[1])
        /\ log[1].bus = HAL_I2C_STATE_READY

C1_Witness ==
    /\ Returned("I2C_Transmit")
    /\ afterWait
    /\ log[1].res = HAL_OK
    /\ busState = HAL_I2C_STATE_BUSY_TX

\* C2: in I2C_WaitUntilReady, before the first probe the log is K observations
\* of a bus that is not Ready followed by exactly one Ready observation, so no
\* probe precedes the first Ready observation; and the call has returned only
\* if its last driver call is a Ready observation made after the last probe.
C2_StrictOrder ==
    InWait =>
        /\ \A i \in Probes(log) :
              \E j \in 1 .. (i - 1) :
                  /\ IsReadyObs(log[j])
                  /\ \A k \in 1 .. (j - 1) :
                        IsGetState(log[k]) /\ ~IsReadyObs(log[k])
                  /\ \A k \in (j + 1) .. (i - 1) : IsProbe(log[k])
        /\ pc = "wait_first" => \A k \in DOMAIN log : ~IsReadyObs(log[k])
        /\ pc = "idle" =>
              /\ LastProbe(log) > 0
              /\ LastProbe(log) < Len(log)
              /\ IsReadyObs(log[Len(log)])

C2_Witness ==
    /\ Returned("I2C_WaitUntilReady")
    /\ Len(log) >= 4
    /\ ~IsReadyObs(log[1])
    /\ ~IsReadyObs(log[2])
    /\ IsReadyObs(log[3])
    /\ IsProbe(log[4])

\* C3: every probe of I2C_WaitUntilReady carries the device address of the
\* call with trials 100 and timeout 100; every probe but the last reported a
\* timeout; once the probe loop is left the last probe did not, so T timeouts
\* make exactly T+1 probes; and what follows the last probe is the final bus
\* poll, never another probe.
C3_RetriesExactly ==
    InWait =>
        /\ \A i \in Probes(log) : log[i].args = <<args.dev, 100, 100>>
        /\ \A i \in Probes(log), j \in Probes(log) :
              i < j => /\ log[i].res = HAL_TIMEOUT
                       /\ \A k \in i .. j : IsProbe(log[k])
        /\ pc = "wait_probe" => Probes(log) = Timeouts(log)
        /\ pc \notin {"wait_first", "wait_probe"} =>
              /\ Cardinality(Probes(log)) = Cardinality(Timeouts(log)) + 1
              /\ log[LastProbe(log)].res # HAL_TIMEOUT
              /\ LastProbe(log) < Len(log) => IsGetState(log[LastProbe(log) + 1])

C3_Witness ==
    /\ Returned("I2C_WaitUntilReady")
    /\ Cardinality(Timeouts(log)) = 2
    /\ Cardinality(Probes(log)) = 3
    /\ log[LastProbe(log)].res = HAL_OK
    /\ LastProbe(log) = Len(log) - 1
    /\ IsReadyObs(log[Len(log)])

\* C4, as claimed: I2C_WaitUntilReady leaves the probe loop only after a probe
\* has reported HAL_OK.
C4_LeavesProbeOnlyAfterOk ==
    (InWait /\ pc \notin {"wait_first", "wait_probe"}) =>
        \E i \in Probes(log) : log[i].res = HAL_OK

\* C5: a completed I2C_Transmit (I2C_Receive) has issued exactly one write
\* (read) request, with the caller's device address, memory address, buffer
\* and size, and has returned 0 if that request reported HAL_OK and -1 on any
\* other status.
C5_OneRequestNoRetry ==
    Transferred =>
        /\ Len(log) = 1
        /\ log[1].ev = IF op = "I2C_Transmit"
                       THEN "HAL_I2C_Mem_Write_IT" ELSE "HAL_I2C_Mem_Read_IT"
        /\ log[1].args[1] = args.dev
        /\ log[1].args[2] = args.mem
        /\ log[1].args[4] = args.buf
        /\ log[1].args[5] = args.size
        /\ ret = IF log[1].res = HAL_OK THEN 0 ELSE -1

C5_Witness ==
    /\ Returned("I2C_Transmit")
    /\ log[1].args = <<80, 16, 1, "bufA", 4>>
    /\ log[1].res = HAL_ERROR
    /\ ret = -1

\* C6: the request of I2C_Transmit and of I2C_Receive carries the driver's
\* 8-bit code for an 8-bit address width and the driver's 16-bit code for a
\* 16-bit one, and the two codes differ.
C6_WidthCode ==
    Transferred =>
        /\ args.width = I2C_MEMSIZE_8BIT =>
              log[1].args[3] = I2C_MEMADD_SIZE_8BIT
        /\ args.width = I2C_MEMSIZE_16BIT =>
              log[1].args[3] = I2C_MEMADD_SIZE_16BIT
        /\ (args.width \in {I2C_MEMSIZE_8BIT, I2C_MEMSIZE_16BIT}) =>
              (log[1].args[3] = I2C_MEMADD_SIZE_16BIT
                  <=> args.width = I2C_MEMSIZE_16BIT)

C6_Witness ==
    /\ Returned("I2C_Receive")
    /\ args.width = I2C_MEMSIZE_16BIT
    /\ log[1].args[3] = 16
    /\ ret = 0

\* C7: I2C_WaitUntilReady has no failure outcome: it has returned only if it
\* observed the bus Ready in the first wait, then had a probe report something
\* other than a timeout, then observed the bus Ready in the final wait; and
\* when the transfer in flight completes, the timer runs and the probe does
\* not time out forever, every call returns.
C7_ReturnsIffResolved ==
    /\ [](Returned("I2C_WaitUntilReady") =>
            /\ ret = "void"
            /\ \E i \in DOMAIN log, j \in DOMAIN log :
                  /\ i < j
                  /\ j < Len(log)
                  /\ IsReadyObs(log[i])
                  /\ IsProbe(log[j]) /\ log[j].res # HAL_TIMEOUT
                  /\ IsReadyObs(log[Len(log)]))
    /\ (InWait /\ pc # "idle") ~> Returned("I2C_WaitUntilReady")

C7_Witness ==
    /\ Returned("I2C_WaitUntilReady")
    /\ ~IsReadyObs(log[1])
    /\ Timeouts(log) # {}
    /\ SleepsAfter(log, 0) # {}

\* C8: MCAL_Sleep sets the counter to 0 at entry, so while it polls the counter
\* equals the ticks since entry (until the counter wraps); it has returned
\* only after at least as many ticks as the requested delay; and with a delay
\* of 0 it returns on its first counter read.
C8_SleepAtLeast ==
    /\ (pc = "sleep_poll" /\ ticks < CounterRange) => counter = ticks
    /\ Returned("MCAL_Sleep") =>
          /\ ticks >= args.delay
          /\ args.delay = 0 => reads = 0

C8_Witness ==
    /\ Returned("MCAL_Sleep")
    /\ args.delay = 2
    /\ ticks = 2
    /\ reads = 1

\* C10: in I2C_WaitUntilReady, MCAL_Sleep is called with a delay of 1 and only
\* directly after an observation, made after the last probe, of a bus that is
\* not Ready; every such observation is followed by one call of MCAL_Sleep
\* before anything else; so at return the calls of MCAL_Sleep are as many as
\* the observations after the probe that were not Ready.
C10_SleepOnlyInFinalWait ==
    InWait =>
        /\ \A i \in SleepsAfter(log, 0) :
              /\ log[i].args = <<1>>
              /\ LastProbe(log) > 0
              /\ i - 1 \in NotReadyAfter(log, LastProbe(log))
        /\ pc \in {"wait_first", "wait_probe"} => SleepsAfter(log, 0) = {}
        /\ pc \in {"sleep_set", "sleep_poll"} =>
              /\ sleepFrom = "wait"
              /\ sleepDelay = 1
        /\ pc \notin {"wait_first", "wait_probe"} =>
              \A i \in NotReadyAfter(log, LastProbe(log)) :
                  IF i < Len(log)
                  THEN IsSleep(log[i + 1])
                  ELSE pc = "sleep_set"
        /\ pc = "idle" =>
              Cardinality(SleepsAfter(log, 0))
                  = Cardinality(NotReadyAfter(log, LastProbe(log)))

C10_Witness ==
    /\ Returned("I2C_WaitUntilReady")
    /\ ~IsReadyObs(log[1])
    /\ Cardinality(SleepsAfter(log, 0)) = 2
    /\ Cardinality(NotReadyAfter(log, LastProbe(log))) = 2

\* C9: for each of the four ports, GPIO_IsSet called directly after
\* GPIO_RaiseHigh on the same port reports true for every non-empty selection
\* of the raised pins, and called directly after GPIO_PullDown reports false
\* for every selection of the lowered pins; the read goes to the port handle
\* the write went to, and that handle belongs to no other port.
C9_WriteThenRead ==
    [][(/\ op \in {"GPIO_RaiseHigh", "GPIO_PullDown"}
        /\ args.port \in GPIOPorts
        /\ op' = "GPIO_IsSet"
        /\ args'.port = args.port
        /\ args'.mask \subseteq args.mask)
       =>
       (/\ (op = "GPIO_RaiseHigh" /\ args'.mask # {}) => ret' = TRUE
        /\ op = "GPIO_PullDown" => ret' = FALSE
        /\ log'[1].args[1] = log[1].args[1]
        /\ \A q \in GPIOPorts \ {args.port} :
              MCAL_ConvertGPIOPort(q) # log[1].args[1])]_vars

C9_Witness ==
    /\ Returned("GPIO_IsSet")
    /\ args.port = GPIO_PORT_D
    /\ args.mask = {0, 1}
    /\ log[1].args[1] = GPIOD
    /\ odr[GPIOD] = {0, 1}
    /\ odr[GPIOC] = {}
    /\ ret = TRUE

====
